---- MODULE Spec2Model ----
(***************************************************************************)
(* The IDX Agent gateway router (src/api/endpoints.py): five request       *)
(* handlers over one process-wide set, claimed_incidents, and one upstream *)
(* collaborator, the EIDO Agent.  A handler that proxies a call suspends   *)
(* at its `await client.get/post` and resumes when the upstream answers;   *)
(* other requests are handled in between.                                  *)
(*                                                                         *)
(* Strings are sequences of tokens: a filename is a sequence of            *)
(* characters, a body is a sequence of bytes, a message is a sequence of   *)
(* text pieces (a fixed piece of the f-string, then what is interpolated). *)
(***************************************************************************)
EXTENDS Integers, Sequences, FiniteSets, Bags

VARIABLES claimed_incidents, pending, last, completed_claims

vars == <<claimed_incidents, pending, last, completed_claims>>

(***************************************************************************)
(* Bounds of the model.                                                    *)
(***************************************************************************)
\* Longest uploaded file body, in bytes.
MaxLen == 2
\* Most proxied requests suspended at their await at one time.
MaxPending == 2

(***************************************************************************)
(* Status codes the handlers set.                                          *)
(***************************************************************************)
BadRequest == 400
BadGateway == 502
InternalServerError == 500

(***************************************************************************)
(* Inputs.                                                                 *)
(***************************************************************************)
\* Incident identifiers (path parameter, any string).
Ids == {"a", "b"}

\* Uploaded filenames, as character sequences.
Filenames ==
    { <<"d", ".", "j", "s", "o", "n">>,
      <<"d", ".", "t", "x", "t">>,
      <<"d", ".", "J", "S", "O", "N">>,
      <<"d", ".", "j", "s", "o", "n", ".", "t", "x", "t">>,
      <<"j", "s", "o", "n">> }

\* Bytes of an uploaded body: an opening bracket, a digit, a blank, and a
\* byte (0x80) that is not valid UTF-8.
Bytes == {"[", "1", " ", "x80"}

RECURSIVE SeqsUpTo(_, _)
SeqsUpTo(S, n) ==
    IF n = 0 THEN {<<>>}
    ELSE LET shorter == SeqsUpTo(S, n - 1)
         IN  shorter \cup {Append(s, x) : s \in {t \in shorter : Len(t) = n - 1}, x \in S}

\* Uploaded file bodies.
Contents == SeqsUpTo(Bytes, MaxLen)

\* Correlation request payloads ("{}" is the empty object).
CorrelationRequests == {"{}", "{id:a}", "{id:b}"}

(***************************************************************************)
(* str.endswith                                                            *)
(***************************************************************************)
\* Mutant: the suffix found anywhere in s.
EndsWith_anywhere(s, suffix) ==
    \E i \in 1 .. (Len(s) - Len(suffix) + 1) : SubSeq(s, i, i + Len(suffix) - 1) = suffix

EndsWith(s, suffix) ==
    /\ Len(s) >= Len(suffix)
    /\ SubSeq(s, Len(s) - Len(suffix) + 1, Len(s)) = suffix

DotJson == <<".", "j", "s", "o", "n">>

(***************************************************************************)
(* JSON values, and json.loads on a body of bytes.                         *)
(***************************************************************************)
JNull == [kind |-> "null", num |-> 0, items |-> <<>>]
JNum(n) == [kind |-> "num", num |-> n, items |-> <<>>]
JArr(items) == [kind |-> "arr", num |-> 0, items |-> items]

\* Index of the first byte at or after idx that is not whitespace.
RECURSIVE SkipWs(_, _)
SkipWs(s, idx) ==
    IF idx <= Len(s) /\ s[idx] = " " THEN SkipWs(s, idx + 1) ELSE idx

\* Index after the run of digits that starts at idx.
RECURSIVE DigitsEnd(_, _)
DigitsEnd(s, idx) ==
    IF idx <= Len(s) /\ s[idx] = "1" THEN DigitsEnd(s, idx + 1) ELSE idx

\* The integer written by the digits s[from .. to-1].
RECURSIVE DigitsValue(_, _, _)
DigitsValue(s, from, to) ==
    IF to <= from THEN 0 ELSE 10 * DigitsValue(s, from, to - 1) + 1

ScanFail == [ok |-> FALSE, value |-> JNull, end |-> 0]

\* The decoder's scan of one value starting at idx: a number, or an array
\* (of no or one element: the bytes hold no comma).
RECURSIVE scan_once(_, _)
scan_once(s, idx) ==
    IF idx > Len(s) THEN ScanFail
    ELSE IF s[idx] = "1"
    THEN LET e == DigitsEnd(s, idx)
         IN  [ok |-> TRUE, value |-> JNum(DigitsValue(s, idx, e)), end |-> e]
    ELSE IF s[idx] = "["
    THEN LET i == SkipWs(s, idx + 1)
         IN  IF i > Len(s) THEN ScanFail
             ELSE IF s[i] = "]"
             THEN [ok |-> TRUE, value |-> JArr(<<>>), end |-> i + 1]
             ELSE LET r == scan_once(s, i)
                      j == SkipWs(s, r.end)
                  IN  IF r.ok /\ j <= Len(s) /\ s[j] = "]"
                      THEN [ok |-> TRUE, value |-> JArr(<<r.value>>), end |-> j + 1]
                      ELSE ScanFail
    ELSE ScanFail

\* Whether the bytes decode as UTF-8 text.
Decodable(b) == \A i \in DOMAIN b : b[i] # "x80"

\* json.loads(b) for bytes b: the value, or the exception it raises.
\* Bytes that are not text raise UnicodeDecodeError before any parsing;
\* text that is not one JSON value raises JSONDecodeError.
json_loads(b) ==
    IF ~Decodable(b)
    THEN [ok |-> FALSE, value |-> JNull, exc |-> "UnicodeDecodeError",
          msg |-> <<"'utf-8' codec can't decode byte 0x80">>]
    ELSE LET r == scan_once(b, SkipWs(b, 1))
         IN  IF ~r.ok
             THEN [ok |-> FALSE, value |-> JNull, exc |-> "JSONDecodeError",
                   msg |-> <<"Expecting value">>]
             ELSE IF SkipWs(b, r.end) # Len(b) + 1
             THEN [ok |-> FALSE, value |-> JNull, exc |-> "JSONDecodeError",
                   msg |-> <<"Extra data">>]
             ELSE [ok |-> TRUE, value |-> r.value, exc |-> "none", msg |-> <<>>]

\* response.text: the body decoded with undecodable bytes replaced.
Text(b) == [i \in DOMAIN b |-> IF b[i] = "x80" THEN "ufffd" ELSE b[i]]

(***************************************************************************)
(* Exception classes and `except` matching.                                *)
(***************************************************************************)
ExcClasses ==
    {"BaseException", "Exception", "ValueError", "UnicodeError",
     "UnicodeDecodeError", "JSONDecodeError", "HTTPError", "HTTPStatusError",
     "RequestError", "TransportError", "NetworkError", "ConnectError",
     "TimeoutException", "ConnectTimeout", "ReadTimeout", "InvalidURL"}

\* The base class of each exception class.
ExcBase(cls) ==
    CASE cls = "Exception" -> "BaseException"
      [] cls = "ValueError" -> "Exception"
      [] cls = "UnicodeError" -> "ValueError"
      [] cls = "UnicodeDecodeError" -> "UnicodeError"
      [] cls = "JSONDecodeError" -> "ValueError"
      [] cls = "HTTPError" -> "Exception"
      [] cls = "HTTPStatusError" -> "HTTPError"
      [] cls = "RequestError" -> "HTTPError"
      [] cls = "TransportError" -> "RequestError"
      [] cls = "NetworkError" -> "TransportError"
      [] cls = "ConnectError" -> "NetworkError"
      [] cls = "TimeoutException" -> "TransportError"
      [] cls = "ConnectTimeout" -> "TimeoutException"
      [] cls = "ReadTimeout" -> "TimeoutException"
      [] cls = "InvalidURL" -> "Exception"
      [] OTHER -> "BaseException"

RECURSIVE IsInstance(_, _)
IsInstance(cls, base) ==
    \/ cls = base
    \/ cls # "BaseException" /\ IsInstance(ExcBase(cls), base)

\* The first `except` clause of the chain that catches cls; 0 when none does.
RECURSIVE FirstMatchFrom(_, _, _)
FirstMatchFrom(cls, chain, k) ==
    IF k > Len(chain) THEN 0
    ELSE IF IsInstance(cls, chain[k]) THEN k
    ELSE FirstMatchFrom(cls, chain, k + 1)

FirstMatch(cls, chain) == FirstMatchFrom(cls, chain, 1)

(***************************************************************************)
(* The upstream EIDO Agent: what one awaited client.get/post ends in.      *)
(***************************************************************************)
EIDO_AGENT_URL == "http://eido-agent"

\* Status codes the upstream answers with.
UpstreamStatuses == {200, 400, 500, 502}

\* Bodies the upstream answers with: JSON, malformed JSON, bytes that are
\* not text, plain text.
UpstreamBodies ==
    { <<>>, <<"[", "]">>, <<"[", " ", "1", "1", "]">>, <<"[">>,
      <<"[", " ", "x80", "]">>, <<"server error">> }

\* Exceptions client.get/post raises instead of returning a response.
UpstreamFailures ==
    { [exc |-> "ConnectError", msg |-> <<"All connection attempts failed">>],
      [exc |-> "ConnectError", msg |-> <<"Name or service not known">>],
      [exc |-> "ConnectTimeout", msg |-> <<>>],
      [exc |-> "ReadTimeout", msg |-> <<>>],
      [exc |-> "InvalidURL", msg |-> <<"Invalid non-printable ASCII character in URL">>] }

NoAnswer ==
    [kind |-> "none", status_code |-> 0, body |-> <<>>, exc |-> "none", msg |-> <<>>]

Answers ==
    { [NoAnswer EXCEPT !.kind = "response", !.status_code = s, !.body = b] :
        s \in UpstreamStatuses, b \in UpstreamBodies }
    \cup
    { [NoAnswer EXCEPT !.kind = "error", !.exc = f.exc, !.msg = f.msg] :
        f \in UpstreamFailures }

\* Response.raise_for_status raises HTTPStatusError unless the status is 2xx.
is_success(status_code) == status_code >= 200 /\ status_code <= 299

(***************************************************************************)
(* What a handler ends in.                                                 *)
(***************************************************************************)
NoResponse ==
    [kind |-> "none", status_code |-> 0, detail |-> <<>>, error |-> "none",
     exc |-> "none", value |-> JNull]

\* The handler is suspended at its await: no response yet.
Suspended == [NoResponse EXCEPT !.kind = "suspended"]

\* return value
Return(value) ==
    [NoResponse EXCEPT !.kind = "return", !.status_code = 200, !.value = value]

\* raise HTTPException(status_code=..., detail=...); `error` names the
\* error class of the raise site.
HTTPException(status_code, detail, error) ==
    [NoResponse EXCEPT !.kind = "HTTPException", !.status_code = status_code,
                       !.detail = detail, !.error = error]

\* An exception no `except` clause of the handler catches leaves the handler.
Unhandled(exc) == [NoResponse EXCEPT !.kind = "raise", !.exc = exc]

\* Lines 22-25 and 64-68: the awaited call, raise_for_status, response.json().
\* The value returned, or the exception raised.
Proxied(answer) ==
    IF answer.kind = "error"
    THEN [ok |-> FALSE, exc |-> answer.exc, msg |-> answer.msg,
          status_code |-> 0, text |-> <<>>, value |-> JNull]
    ELSE IF ~is_success(answer.status_code)
    THEN [ok |-> FALSE, exc |-> "HTTPStatusError", msg |-> <<"HTTP status error">>,
          status_code |-> answer.status_code, text |-> Text(answer.body),
          value |-> JNull]
    ELSE LET r == json_loads(answer.body)
         IN  [ok |-> r.ok, exc |-> r.exc, msg |-> r.msg,
              status_code |-> answer.status_code, text |-> Text(answer.body),
              value |-> r.value]

\* Lines 27 and 71: the HTTPException raised on an HTTPStatusError e, with
\* e.response.status_code and e.response.text.
\* Mutant: every upstream error status surfaced as 502.
upstream_error_bad_gateway(status_code, text) ==
    HTTPException(BadGateway, <<"Error from EIDO Agent: ">> \o text, "UpstreamError")

\* Mutant: the upstream's body text surfaced as the whole message.
upstream_error_bare(status_code, text) ==
    HTTPException(status_code, text, "UpstreamError")

upstream_error(status_code, text) ==
    HTTPException(status_code, <<"Error from EIDO Agent: ">> \o text, "UpstreamError")

(***************************************************************************)
(* get_incidents                                                           *)
(***************************************************************************)
\* The `except` clauses of get_incidents, in order.
\* Mutant: the second clause catches connection errors only.
get_incidents_excepts_narrow == <<"HTTPStatusError", "NetworkError", "Exception">>

get_incidents_excepts == <<"HTTPStatusError", "RequestError", "Exception">>

get_incidents_finish(answer) ==
    LET o == Proxied(answer)
        k == FirstMatch(o.exc, get_incidents_excepts)
    IN  IF o.ok THEN Return(o.value)
        ELSE CASE k = 1 ->
                    upstream_error(o.status_code, o.text)
               [] k = 2 ->
                    HTTPException(BadGateway,
                                  <<"Error connecting to EIDO Agent: ">> \o o.msg,
                                  "GatewayConnectError")
               [] k = 3 ->
                    HTTPException(InternalServerError,
                                  <<"An unexpected error occurred while fetching incidents: ">> \o o.msg,
                                  "InternalError")
               [] OTHER -> Unhandled(o.exc)

(***************************************************************************)
(* upload_eido                                                             *)
(***************************************************************************)
\* The `except` clause around json.loads(content).
upload_parse_excepts == <<"JSONDecodeError">>

\* The `except` clauses around the proxied POST, in order.
upload_proxy_excepts ==
    <<"HTTPStatusError", "RequestError", "JSONDecodeError", "Exception">>

\* Lines 54-61: the response when the upload ends before the POST;
\* Suspended when it goes on to the POST.
upload_eido_check(filename, content) ==
    IF ~EndsWith(filename, DotJson)
    THEN HTTPException(BadRequest,
                       <<"Invalid file type. Only .json files are accepted.">>,
                       "InvalidFileType")
    ELSE LET r == json_loads(content)
         IN  IF r.ok THEN Suspended
             ELSE IF FirstMatch(r.exc, upload_parse_excepts) = 1
             THEN HTTPException(BadRequest,
                                <<"Invalid JSON format in uploaded file.">>,
                                "InvalidPayload")
             ELSE Unhandled(r.exc)

\* Lines 63-80: the response once the upstream has answered the POST.
upload_eido_finish(answer) ==
    LET o == Proxied(answer)
        k == FirstMatch(o.exc, upload_proxy_excepts)
    IN  IF o.ok THEN Return(o.value)
        ELSE CASE k = 1 ->
                    upstream_error(o.status_code, o.text)
               [] k = 2 ->
                    HTTPException(BadGateway,
                                  <<"Could not connect to EIDO Agent: ">> \o o.msg,
                                  "GatewayConnectError")
               [] k = 3 ->
                    HTTPException(BadGateway,
                                  <<"Received an invalid response from the EIDO Agent.">>,
                                  "UpstreamProtocolError")
               [] k = 4 ->
                    HTTPException(InternalServerError,
                                  <<"An unexpected error occurred: ">> \o o.msg,
                                  "InternalError")
               [] OTHER -> Unhandled(o.exc)

(***************************************************************************)
(* State.                                                                  *)
(*   claimed_incidents  the module-level set (line 14)                     *)
(*   pending            the handlers suspended at `await client.get/post`: *)
(*                      a bag of [op, nsent], nsent the outbound calls the *)
(*                      handler has made                                   *)
(*   last               the latest step of a handler: the request, the     *)
(*                      outbound calls the step made (sent), the upstream  *)
(*                      answer it resumed on, and the response; repeat     *)
(*                      tells whether a claim's identifier had been        *)
(*                      claimed by a completed request before              *)
(*   completed_claims   history: the identifiers of the Claim Incident     *)
(*                      requests that have completed (no handler reads it) *)
(***************************************************************************)
NoStep ==
    [op |-> "none", phase |-> "none", incident_id |-> "", filename |-> <<>>,
     content |-> <<>>, request |-> "", answer |-> NoAnswer, json |-> JNull,
     sent |-> <<>>, nsent |-> 0, repeat |-> FALSE, response |-> NoResponse]

Init ==
    /\ claimed_incidents = {}
    /\ pending = EmptyBag
    /\ last = NoStep
    /\ completed_claims = {}

\* An outbound call: client.get(url) or client.post(url, json=...).
Get(path) == [method |-> "GET", url |-> <<EIDO_AGENT_URL, path>>, json |-> JNull]
Post(path, json) == [method |-> "POST", url |-> <<EIDO_AGENT_URL, path>>, json |-> json]

\* Line 23: the outbound calls of get_incidents.
get_incidents_sends == <<Get("/api/v1/incidents")>>

\* Line 65: the outbound calls of upload_eido with eido_data decoded.
upload_eido_sends(eido_data) == <<Post("/api/v1/ingest", eido_data)>>

\* Mutant: a failed call is sent once more.
resume_sends_retry(answer) ==
    IF answer.kind = "error" \/ ~is_success(answer.status_code)
    THEN <<Post("/api/v1/ingest", JNull)>>
    ELSE <<>>

\* Outbound calls a handler makes after the upstream answered (none: lines
\* 26-31 and 69-80 only raise).
resume_sends(answer) == <<>>

\* Mutant: the set replaced by the one identifier.
SetAdd_assign(set, x) == {x}

\* Mutant: a second add of an identifier removes it.
SetAdd_toggle(set, x) == IF x \in set THEN set \ {x} ELSE set \cup {x}

\* set.add
SetAdd(set, x) == set \cup {x}

\* list(set): every element once, in some order.
ListsOf(set) ==
    { l \in [1 .. Cardinality(set) -> set] : \A x \in set : \E i \in DOMAIN l : l[i] = x }

\* Lines 16-23: get_incidents up to its await.
get_incidents_call ==
    /\ BagCardinality(pending) < MaxPending
    /\ pending' = pending (+) SetToBag({[op |-> "get_incidents",
                                         nsent |-> Len(get_incidents_sends)]})
    /\ last' = [NoStep EXCEPT !.op = "get_incidents", !.phase = "call",
                              !.sent = get_incidents_sends,
                              !.nsent = Len(get_incidents_sends),
                              !.response = Suspended]
    /\ UNCHANGED <<claimed_incidents, completed_claims>>

\* Lines 23-31: get_incidents from the upstream's answer on.
get_incidents_resume(answer) ==
    \E p \in BagToSet(pending) :
        /\ p.op = "get_incidents"
        /\ pending' = pending (-) SetToBag({p})
        /\ last' = [NoStep EXCEPT !.op = "get_incidents", !.phase = "resume",
                                  !.answer = answer,
                                  !.sent = resume_sends(answer),
                                  !.nsent = p.nsent + Len(resume_sends(answer)),
                                  !.response = get_incidents_finish(answer)]
        /\ UNCHANGED <<claimed_incidents, completed_claims>>

\* Lines 34-40.
claim_incident(incident_id) ==
    /\ claimed_incidents' = SetAdd(claimed_incidents, incident_id)
    /\ last' = [NoStep EXCEPT !.op = "claim_incident", !.phase = "whole",
                              !.incident_id = incident_id,
                              !.repeat = incident_id \in completed_claims,
                              !.response =
                                  Return([message |-> <<"Incident ", incident_id, " claimed.">>])]
    /\ completed_claims' = completed_claims \cup {incident_id}
    /\ UNCHANGED pending

\* Lines 42-47.
get_claimed_incidents ==
    \E l \in ListsOf(claimed_incidents) :
        /\ last' = [NoStep EXCEPT !.op = "get_claimed_incidents", !.phase = "whole",
                                  !.response = Return(l)]
        /\ UNCHANGED <<claimed_incidents, pending, completed_claims>>

\* Lines 49-65: upload_eido up to its response or, with the filename and
\* the body accepted, up to the await of the POST.
upload_eido(filename, content) ==
    LET response == upload_eido_check(filename, content)
        eido_data == json_loads(content).value
    IN  IF response.kind = "suspended"
        THEN /\ BagCardinality(pending) < MaxPending
             /\ pending' = pending (+) SetToBag({[op |-> "upload_eido",
                                                  nsent |-> Len(upload_eido_sends(eido_data))]})
             /\ last' = [NoStep EXCEPT !.op = "upload_eido", !.phase = "call",
                                       !.filename = filename, !.content = content,
                                       !.json = eido_data,
                                       !.sent = upload_eido_sends(eido_data),
                                       !.nsent = Len(upload_eido_sends(eido_data)),
                                       !.response = response]
             /\ UNCHANGED <<claimed_incidents, completed_claims>>
        ELSE /\ last' = [NoStep EXCEPT !.op = "upload_eido", !.phase = "whole",
                                       !.filename = filename, !.content = content,
                                       !.response = response]
             /\ UNCHANGED <<claimed_incidents, pending, completed_claims>>

\* Lines 65-80: upload_eido from the upstream's answer on.
upload_eido_resume(answer) ==
    \E p \in BagToSet(pending) :
        /\ p.op = "upload_eido"
        /\ pending' = pending (-) SetToBag({p})
        /\ last' = [NoStep EXCEPT !.op = "upload_eido", !.phase = "resume",
                                  !.answer = answer,
                                  !.sent = resume_sends(answer),
                                  !.nsent = p.nsent + Len(resume_sends(answer)),
                                  !.response = upload_eido_finish(answer)]
        /\ UNCHANGED <<claimed_incidents, completed_claims>>

\* Mutant: a request naming a claimed incident is reported as correlated.
correlate_incident_lookup(request) ==
    /\ last' = [NoStep EXCEPT !.op = "correlate_incident", !.phase = "whole",
                              !.request = request,
                              !.response =
                                  IF request = "{id:a}" /\ "a" \in claimed_incidents
                                  THEN Return([status |-> "existing", correlation_id |-> JNum(1)])
                                  ELSE Return([status |-> "new", correlation_id |-> JNull])]
    /\ UNCHANGED <<claimed_incidents, pending, completed_claims>>

\* Lines 83-90.
correlate_incident(request) ==
    /\ last' = [NoStep EXCEPT !.op = "correlate_incident", !.phase = "whole",
                              !.request = request,
                              !.response =
                                  Return([status |-> "new", correlation_id |-> JNull])]
    /\ UNCHANGED <<claimed_incidents, pending, completed_claims>>

Next ==
    \/ get_incidents_call
    \/ \E answer \in Answers : get_incidents_resume(answer)
    \/ \E incident_id \in Ids : claim_incident(incident_id)
    \/ get_claimed_incidents
    \/ \E filename \in Filenames, content \in Contents : upload_eido(filename, content)
    \/ \E answer \in Answers : upload_eido_resume(answer)
    \/ \E request \in CorrelationRequests : correlate_incident(request)

Spec == Init /\ [][Next]_vars

(***************************************************************************)
(* Notions the properties are stated in, written without the model's own   *)
(* operators.                                                              *)
(***************************************************************************)
\* The filename's last five characters are ".json", case-sensitive.
HasJsonSuffix(f) ==
    /\ Len(f) >= 5
    /\ f[Len(f) - 4] = "."
    /\ f[Len(f) - 3] = "j"
    /\ f[Len(f) - 2] = "s"
    /\ f[Len(f) - 1] = "o"
    /\ f[Len(f)] = "n"

\* Over Bytes, the bodies that are JSON: blanks, a run of digits, blanks.
Ones(c) == {i \in DOMAIN c : c[i] = "1"}

IsJsonText(c) ==
    /\ Ones(c) # {}
    /\ \A i \in DOMAIN c : c[i] \in {"1", " "}
    /\ \A i \in Ones(c), j \in Ones(c) : \A k \in i .. j : c[k] = "1"

RECURSIVE Repunit(_)
Repunit(n) == IF n = 0 THEN 0 ELSE 10 * Repunit(n - 1) + 1

\* The JSON value such a body denotes.
JsonOf(c) == [kind |-> "num", num |-> Repunit(Cardinality(Ones(c))), items |-> <<>>]

\* The upstream bodies that are JSON.
JsonBodies == { <<"[", "]">>, <<"[", " ", "1", "1", "]">> }

\* sub occurs in seq as a contiguous piece.
Contains(seq, sub) ==
    \E i \in 1 .. (Len(seq) - Len(sub) + 1) : SubSeq(seq, i, i + Len(sub) - 1) = sub

\* A step of upload_eido that starts a request (not the resumption).
UploadStarted == last.op = "upload_eido" /\ last.phase \in {"whole", "call"}

\* A step that resumes a proxied handler on the upstream's answer.
Resumed == last.op \in {"get_incidents", "upload_eido"} /\ last.phase = "resume"

\* The step ended the request in the error class with the status code.
FailedWith(error, status_code) ==
    /\ last.response.kind = "HTTPException"
    /\ last.response.error = error
    /\ last.response.status_code = status_code

(***************************************************************************)
(* C1: once a Claim Incident request for X has completed, every later List *)
(* Claimed Incidents result includes X, whatever requests were handled or  *)
(* are suspended in between; no identifier ever leaves claimed_incidents.  *)
(***************************************************************************)
C1_ClaimedStaysListed ==
    /\ completed_claims \subseteq claimed_incidents
    /\ last.op = "get_claimed_incidents" =>
          /\ last.response.kind = "return"
          /\ \A x \in completed_claims :
                \E i \in DOMAIN last.response.value : last.response.value[i] = x

\* Both identifiers claimed, a proxied request suspended, and the set listed.
C1_Witness ==
    /\ last.op = "get_claimed_incidents"
    /\ completed_claims = Ids
    /\ pending # EmptyBag
    /\ Len(last.response.value) = 2

(***************************************************************************)
(* C2: an upload whose filename does not end in ".json" (case-sensitive)   *)
(* fails with InvalidFileType, status 400, whatever the content and the    *)
(* upstream; nothing is parsed or sent.                                    *)
(***************************************************************************)
C2_WrongSuffixIsInvalidFileType ==
    (UploadStarted /\ ~HasJsonSuffix(last.filename)) =>
        /\ FailedWith("InvalidFileType", 400)
        /\ last.response.detail = <<"Invalid file type. Only .json files are accepted.">>
        /\ last.phase = "whole"
        /\ last.sent = <<>>
        /\ last.nsent = 0

\* "d.json.txt" uploaded with a body that is JSON, a proxied request suspended.
C2_Witness ==
    /\ UploadStarted
    /\ last.filename = <<"d", ".", "j", "s", "o", "n", ".", "t", "x", "t">>
    /\ IsJsonText(last.content)
    /\ pending # EmptyBag
    /\ last.response.error = "InvalidFileType"

(***************************************************************************)
(* C3: an upload named *.json whose body cannot be parsed as JSON fails    *)
(* with InvalidPayload, status 400, for every way the parse fails          *)
(* (malformed text, bytes that are not text); nothing is sent.             *)
(***************************************************************************)
C3_UnparseableIsInvalidPayload ==
    (UploadStarted /\ HasJsonSuffix(last.filename) /\ ~IsJsonText(last.content)) =>
        /\ FailedWith("InvalidPayload", 400)
        /\ last.sent = <<>>
        /\ last.nsent = 0

(***************************************************************************)
(* C4: an upload named *.json whose body parses as JSON makes exactly one  *)
(* outbound POST to the ingest endpoint, its body the decoded JSON, and    *)
(* none after the upstream's answer, whatever that answer is.              *)
(***************************************************************************)
C4_ExactlyOnePost ==
    /\ (UploadStarted /\ HasJsonSuffix(last.filename) /\ IsJsonText(last.content)) =>
          /\ last.phase = "call"
          /\ last.sent = <<[method |-> "POST",
                            url |-> <<"http://eido-agent", "/api/v1/ingest">>,
                            json |-> JsonOf(last.content)]>>
          /\ last.nsent = 1
    /\ (last.op = "upload_eido" /\ last.phase = "resume") =>
          /\ last.sent = <<>>
          /\ last.nsent = 1
    /\ \A p \in BagToSet(pending) : p.op = "upload_eido" => p.nsent = 1

\* The upload of " 1" is sent as the number 1, once, while another proxied
\* request is suspended.
C4_Witness ==
    /\ last.op = "upload_eido"
    /\ last.phase = "call"
    /\ last.content = <<" ", "1">>
    /\ Len(last.sent) = 1
    /\ last.sent[1].method = "POST"
    /\ last.sent[1].json.num = 1
    /\ BagCardinality(pending) = 2

(***************************************************************************)
(* C5: in both proxied operations, an upstream answer with error status S  *)
(* and body text B fails with UpstreamError, status S, message containing  *)
(* B.                                                                      *)
(***************************************************************************)
C5_UpstreamStatusPassedThrough ==
    (Resumed /\ last.answer.kind = "response" /\ last.answer.status_code >= 400) =>
        /\ FailedWith("UpstreamError", last.answer.status_code)
        /\ Contains(last.response.detail, Text(last.answer.body))
        /\ last.response.detail[1] = "Error from EIDO Agent: "

\* The ingest endpoint answered 500 "server error".
C5_Witness ==
    /\ last.op = "upload_eido"
    /\ last.phase = "resume"
    /\ last.answer.status_code = 500
    /\ last.answer.body = <<"server error">>
    /\ last.response.status_code = 500
    /\ last.response.detail = <<"Error from EIDO Agent: ", "server error">>

(***************************************************************************)
(* C6: in both proxied operations, an upstream that cannot be reached      *)
(* (connection refused, DNS failure, timeout) fails with                   *)
(* GatewayConnectError, always status 502.                                 *)
(***************************************************************************)
C6_UnreachableIsBadGateway ==
    (/\ Resumed
     /\ last.answer.kind = "error"
     /\ last.answer.exc \in {"ConnectError", "ConnectTimeout", "ReadTimeout"}) =>
        FailedWith("GatewayConnectError", 502)

\* get_incidents resumed on a read timeout.
C6_Witness ==
    /\ last.op = "get_incidents"
    /\ last.phase = "resume"
    /\ last.answer.exc = "ReadTimeout"
    /\ last.response.status_code = 502

(***************************************************************************)
(* C7 as stated: every error class maps to a status code of its own kind,  *)
(* so that the status code tells a client-caused error (400) from an       *)
(* upstream or network error (502) from an internal error (500), for every *)
(* upstream status.                                                        *)
(***************************************************************************)
\* The kind of failure an error class reports.
CategoryOf(error) ==
    CASE error \in {"InvalidFileType", "InvalidPayload"} -> "client"
      [] error \in {"UpstreamError", "GatewayConnectError", "UpstreamProtocolError"} -> "upstream"
      [] error = "InternalError" -> "internal"
      [] OTHER -> "none"

\* The kind of failure each fixed status code of the handlers stands for.
CategoryOfStatus(status_code) ==
    CASE status_code = 400 -> "client"
      [] status_code = 502 -> "upstream"
      [] status_code = 500 -> "internal"
      [] OTHER -> "upstream"

C7_StatusTellsCategory ==
    last.response.kind = "HTTPException" =>
        CategoryOfStatus(last.response.status_code) = CategoryOf(last.response.error)

(***************************************************************************)
(* C7 as amended: every error class has a message no other class produces  *)
(* (a fixed text, or a fixed leading text before what is interpolated), so *)
(* the class, and with it the kind of failure, is read from the message of *)
(* the response, for every upstream status and body.                       *)
(***************************************************************************)
\* The error class a message's leading text names.
ClassOfMessage(detail) ==
    IF detail = <<>> THEN "none"
    ELSE CASE detail = <<"Invalid file type. Only .json files are accepted.">> ->
                  "InvalidFileType"
           [] detail = <<"Invalid JSON format in uploaded file.">> ->
                  "InvalidPayload"
           [] detail[1] = "Error from EIDO Agent: " ->
                  "UpstreamError"
           [] detail[1] \in {"Error connecting to EIDO Agent: ",
                             "Could not connect to EIDO Agent: "} ->
                  "GatewayConnectError"
           [] detail = <<"Received an invalid response from the EIDO Agent.">> ->
                  "UpstreamProtocolError"
           [] detail[1] \in {"An unexpected error occurred while fetching incidents: ",
                             "An unexpected error occurred: "} ->
                  "InternalError"
           [] OTHER -> "none"

C7_MessageTellsClass ==
    last.response.kind = "HTTPException" =>
        /\ last.response.error # "none"
        /\ ClassOfMessage(last.response.detail) = last.response.error

\* The upstream answered 400 with the text of no class: an UpstreamError
\* with the status code of the client errors.
C7_Witness ==
    /\ Resumed
    /\ last.response.error = "UpstreamError"
    /\ last.response.status_code = 400
    /\ last.answer.body = <<"server error">>

(***************************************************************************)
(* C8: when the upstream answers the ingest POST with a success status and *)
(* a body that is not valid JSON, the upload fails with                    *)
(* UpstreamProtocolError, status 502: not InvalidPayload (400), not        *)
(* InternalError (500).                                                    *)
(***************************************************************************)
C8_BadUpstreamBodyIsProtocolError ==
    (/\ last.op = "upload_eido"
     /\ last.phase = "resume"
     /\ last.answer.kind = "response"
     /\ last.answer.status_code \in 200 .. 299
     /\ last.answer.body \notin JsonBodies) =>
        FailedWith("UpstreamProtocolError", 502)

(***************************************************************************)
(* C9: a Claim Incident request for an identifier already claimed leaves   *)
(* claimed_incidents as it was; every claim succeeds with the same         *)
(* confirmation message for the identifier; a listing holds each claimed   *)
(* identifier exactly once.                                                *)
(***************************************************************************)
C9_ClaimTwiceIsIdempotent ==
    [][ /\ last'.op = "claim_incident" =>
              /\ last'.response.kind = "return"
              /\ last'.response.value =
                     [message |-> <<"Incident ", last'.incident_id, " claimed.">>]
              /\ last'.incident_id \in completed_claims =>
                     claimed_incidents' = claimed_incidents
        /\ last'.op = "get_claimed_incidents" =>
              \A x \in completed_claims' :
                  Cardinality({i \in DOMAIN last'.response.value :
                                   last'.response.value[i] = x}) = 1
      ]_vars

\* "a" claimed a second time, with "b" claimed too.
C9_Witness ==
    /\ last.op = "claim_incident"
    /\ last.incident_id = "a"
    /\ last.repeat
    /\ claimed_incidents = {"a", "b"}

(***************************************************************************)
(* C10: Correlate Incident returns {status: "new", correlation_id: null}   *)
(* for every request payload, in every state of claimed_incidents and of   *)
(* the suspended requests, and makes no outbound call.                     *)
(***************************************************************************)
C10_CorrelateIsConstant ==
    last.op = "correlate_incident" =>
        /\ last.response.kind = "return"
        /\ last.response.value.status = "new"
        /\ last.response.value.correlation_id = [kind |-> "null", num |-> 0, items |-> <<>>]
        /\ last.sent = <<>>
        /\ last.nsent = 0

\* A request naming the claimed incident "a", a proxied request suspended.
C10_Witness ==
    /\ last.op = "correlate_incident"
    /\ last.request = "{id:a}"
    /\ "a" \in claimed_incidents
    /\ pending # EmptyBag
    /\ last.response.value.status = "new"

====
